---- MODULE Spec2Model ----
(***************************************************************************)
(* Comrade: a lock/unlock script evaluator.                                *)
(*                                                                         *)
(* The module models                                                       *)
(*   - the evaluation Context of crates/comrade-core/src/context.rs and    *)
(*     its operators (push, branch, check_signature, check_preimage,       *)
(*     check_eq, check_fail, fail, succeed);                               *)
(*   - the single-context evaluator Comrade of                             *)
(*     crates/comrade-core/src/lib.rs (put, load, run);                    *)
(*   - the staged evaluator (Builder, Initial/Unlocked, try_lock), whose   *)
(*     code is not among the sources and is modelled from spec.md 4.5/4.6. *)
(*                                                                         *)
(* Byte sequences are sequences of numbers 0..255, texts are sequences of  *)
(* Unicode code points.  The multiformat codecs are external crates; they  *)
(* are modelled as tagged encodings with an injective digest.              *)
(***************************************************************************)
EXTENDS Integers, Sequences, FiniteSets, TLC

VARIABLES
    context,    \* the evaluator's Context (context.rs:33-51)
    last,       \* the last operator call: name, arguments, result, Context before
    stage,      \* "Ctx" | "Initial" | "Unlocked" | "Failed" | "Single"
    clone,      \* the Context cloned by the try_lock in progress, or NoContext
    engine,     \* operator name -> the Context its registered closure captured
    script,     \* the loaded script slot: None or Some(script)
    pc,         \* 0 when no script runs, else the index of the next call
    value,      \* the value of the expression evaluated so far
    result,     \* what the last run / try_lock returned
    start,      \* the caller's Context and the clone when the run began
    builder,    \* the unlock expression and stores the caller gave the Builder
    calls,      \* the number of operator calls made so far
    attempts,   \* the number of try_lock calls (of run calls, for Comrade) so far
    puts,       \* the number of Comrade::put calls so far
    returned,   \* the lock expression and the result of each try_lock so far
    checks,     \* the number of check operator calls made so far
    mutex,      \* the holder of the Mutex around Comrade's Context, or "free"
    tally       \* the push calls that hit, those that missed, and for each
                \* call that records a marker the operator that made it

vars ==
    <<context, last, stage, clone, engine, script, pc, value, result, start,
      builder, calls, attempts, puts, returned, checks, mutex, tally>>

evalVars ==
    <<stage, clone, engine, script, pc, value, result, start, builder, attempts,
      puts, returned, mutex>>

-----------------------------------------------------------------------------
(* Bounds of the model *)

\* most operator calls made on one Context
MaxCalls == 4

\* most try_lock calls on one Unlocked evaluator
MaxLocks == 2

\* most run calls, and most put calls, on one Comrade
MaxRuns == 2

MaxPuts == 2

-----------------------------------------------------------------------------
(* Option *)

None == <<>>

Some(v) == <<v>>

-----------------------------------------------------------------------------
(* Value: Bin | Str | Success | Failure (spec.md 3) *)

Bin(h, d) == [tag |-> "Bin", hint |-> h, data |-> d]

Str(h, d) == [tag |-> "Str", hint |-> h, data |-> d]

Success(n) == [tag |-> "Success", count |-> n]

Failure(m) == [tag |-> "Failure", msg |-> m]

\* str::as_bytes: the UTF-8 encoding of one code point below 0x800
Utf8Char(c) == IF c < 128 THEN <<c>> ELSE <<192 + (c \div 64), 128 + (c % 64)>>

RECURSIVE as_bytes(_)
as_bytes(text) ==
    IF text = <<>> THEN <<>> ELSE Utf8Char(Head(text)) \o as_bytes(Tail(text))

-----------------------------------------------------------------------------
(* Stack (spec.md 4.2): the top is the last element *)

StkPush(s, v) == Append(s, v)

StkPop(s) == IF s = <<>> THEN s ELSE SubSeq(s, 1, Len(s) - 1)

StkTop(s) == IF s = <<>> THEN None ELSE Some(s[Len(s)])

StkPeek(s, n) == IF n < Len(s) THEN Some(s[Len(s) - n]) ELSE None

StkLen(s) == Len(s)

StkIsEmpty(s) == s = <<>>

-----------------------------------------------------------------------------
(* Pairs: a mapping from keys to Values (context.rs:18-30) *)

get(pairs, key) == IF key \in DOMAIN pairs THEN Some(pairs[key]) ELSE None

\* put keeping the value a key already has
put_keep_first(pairs, key, v) ==
    [pairs |-> [k \in DOMAIN pairs \cup {key} |->
                  IF k \in DOMAIN pairs THEN pairs[k] ELSE v],
     ret |-> get(pairs, key)]

\* HashMap::insert: the store with key mapped to v, and the value displaced
put(pairs, key, v) ==
    [pairs |-> [k \in DOMAIN pairs \cup {key} |-> IF k = key THEN v ELSE pairs[k]],
     ret |-> get(pairs, key)]

-----------------------------------------------------------------------------
(* The multiformat codecs, as the Context uses them *)

\* multicodec tags, as in the hex data of the tests: 0x3a multikey, 0x39
\* multisig, 0x16 sha3-256, 0xed ed25519-pub
MultikeyTag == 58

MultisigTag == 57

Sha3 == 22

\* the next multicodec hash tag (0x17, sha3-224)
Sha3Alt == Sha3 + 1

\* the key codec the verify view supports
Ed25519Pub == 237

HashCodecs == {Sha3, Sha3Alt}

\* Multikey::try_from(data): <<0x3a, codec, key id>>
MultikeyOk(data) == Len(data) = 3 /\ data[1] = MultikeyTag

Multikey(data) == [codec |-> data[2], id |-> data[3]]

\* Multisig::try_from(data): <<0x39, key id>> followed by the signed payload
MultisigOk(data) == Len(data) >= 2 /\ data[1] = MultisigTag

Multisig(data) == [id |-> data[2], payload |-> SubSeq(data, 3, Len(data))]

\* Multikey::verify_view
VerifyViewOk(mk) == mk.codec = Ed25519Pub

\* VerifyView::verify(sig, Some(message))
Verify(mk, sig, message) == sig.id = mk.id /\ sig.payload = message

\* Multihash::try_from(data): <<codec>> followed by the digest
MultihashOk(data) == Len(data) >= 1 /\ data[1] \in HashCodecs

Multihash(data) == [codec |-> data[1], digest |-> SubSeq(data, 2, Len(data))]

\* the digest of bytes under a codec: injective, and different for each codec
Digest(codec, bytes) == [i \in 1..Len(bytes) |-> (bytes[i] + codec) % 256]

\* mh::Builder::new_from_bytes(codec, bytes).try_build()
MhBuild(codec, bytes) == [codec |-> codec, digest |-> Digest(codec, bytes)]

MultikeyErr == "multikey decode error"

MultisigErr == "multisig decode error"

MultihashErr == "multihash decode error"

VerifyViewErr == "unsupported key codec"

VerifyErr == "signature verification failed"

-----------------------------------------------------------------------------
(* Context (context.rs:115-373).  An operator takes the Context and gives  *)
(* the Context after the call and the value returned.                      *)

\* new leaving the domain empty
new_empty_domain(current, proposed) ==
    [current |-> current, proposed |-> proposed, check_count |-> 0,
     rstack |-> <<>>, pstack |-> <<>>, domain |-> ""]

\* Context::new
new(current, proposed) ==
    [current |-> current, proposed |-> proposed, check_count |-> 0,
     rstack |-> <<>>, pstack |-> <<>>, domain |-> "/"]

\* the owner of a Context sets its public field domain
with_domain(self, d) == [self EXCEPT !.domain = d]

\* a clone that starts with an empty return stack
Clone_empty_rstack(self) ==
    [current |-> self.current, proposed |-> self.proposed,
     check_count |-> self.check_count, rstack |-> <<>>,
     pstack |-> self.pstack, domain |-> self.domain]

\* impl Clone for Context
Clone(self) ==
    [current |-> self.current, proposed |-> self.proposed,
     check_count |-> self.check_count, rstack |-> self.rstack,
     pstack |-> self.pstack, domain |-> self.domain]

\* fail returning false without recording a marker
fail_silent(self, err) == [ctx |-> self, ret |-> FALSE]

\* Context::fail
fail(self, err) ==
    [ctx |-> [self EXCEPT !.rstack = StkPush(self.rstack, Failure(err))],
     ret |-> FALSE]

\* check_fail counting the failure without recording a marker
check_fail_unmarked(self, err) ==
    [ctx |-> [self EXCEPT !.check_count = self.check_count + 1], ret |-> FALSE]

\* check_fail without the increment of check_count
check_fail_no_count(self, err) == fail(self, err)

\* Context::check_fail
check_fail(self, err) ==
    fail([self EXCEPT !.check_count = self.check_count + 1], err)

\* succeed recording the number of markers instead of check_count
succeed_rstack_len(self) ==
    [ctx |-> [self EXCEPT !.rstack = StkPush(self.rstack, Success(StkLen(self.rstack)))],
     ret |-> TRUE]

\* succeed starting the count again after recording it
succeed_reset_count(self) ==
    [ctx |-> [self EXCEPT !.rstack = StkPush(self.rstack, Success(self.check_count)),
                          !.check_count = 0],
     ret |-> TRUE]

\* succeed recording a Failure marker
succeed_as_failure(self) ==
    [ctx |-> [self EXCEPT !.rstack = StkPush(self.rstack, Failure("succeeded"))],
     ret |-> TRUE]

\* Context::succeed
succeed(self) ==
    [ctx |-> [self EXCEPT !.rstack = StkPush(self.rstack, Success(self.check_count))],
     ret |-> TRUE]

\* push reading the proposed store
push_from_proposed(self, key) ==
    LET v == get(self.proposed, key) IN
    IF v # None
    THEN [ctx |-> [self EXCEPT !.pstack = StkPush(self.pstack, v[1])], ret |-> TRUE]
    ELSE fail(self, "kvp missing key: " \o key)

\* push putting an empty value on pstack when the key is missing
push_or_default(self, key) ==
    LET v == get(self.current, key) IN
    [ctx |-> [self EXCEPT !.pstack =
                StkPush(self.pstack, IF v # None THEN v[1] ELSE Bin("", <<>>))],
     ret |-> TRUE]

\* push counting a miss as a failed check
push_check_fail(self, key) ==
    LET v == get(self.current, key) IN
    IF v # None
    THEN [ctx |-> [self EXCEPT !.pstack = StkPush(self.pstack, v[1])], ret |-> TRUE]
    ELSE check_fail(self, "kvp missing key: " \o key)

\* push moving the value out of the current store instead of copying it
push_take(self, key) ==
    LET v == get(self.current, key) IN
    IF v # None
    THEN [ctx |-> [self EXCEPT !.pstack = StkPush(self.pstack, v[1]),
                               !.current = [k \in DOMAIN self.current \ {key} |->
                                              self.current[k]]],
          ret |-> TRUE]
    ELSE fail(self, "kvp missing key: " \o key)

\* push inserting the value under the values already on the stack
push_under(self, key) ==
    LET v == get(self.current, key) IN
    IF v # None
    THEN [ctx |-> [self EXCEPT !.pstack = <<v[1]>> \o self.pstack], ret |-> TRUE]
    ELSE fail(self, "kvp missing key: " \o key)

\* Context::push
push(self, key) ==
    LET v == get(self.current, key) IN
    IF v # None
    THEN [ctx |-> [self EXCEPT !.pstack = StkPush(self.pstack, v[1])], ret |-> TRUE]
    ELSE fail(self, "kvp missing key: " \o key)

\* branch joining domain and key with a separator
branch_with_separator(self, key) == [ctx |-> self, ret |-> self.domain \o "/" \o key]

\* Context::branch
branch(self, key) == [ctx |-> self, ret |-> self.domain \o key]

\* Value::Bin / Value::Str to bytes, as the match arms of the checks do
IsData(v) == v.tag \in {"Bin", "Str"}

Bytes(v) == IF v.tag = "Bin" THEN v.data ELSE as_bytes(v.data)

\* check_signature looking the key up in the proposed store
check_signature_key_from_proposed(self, key, msg) ==
    LET k == get(self.proposed, key)
        m == get(self.proposed, msg)
        t == StkTop(self.pstack)
    IN  IF k = None THEN check_fail(self, "no multikey associated with " \o key)
        ELSE IF k[1].tag # "Bin"
        THEN check_fail(self, "unexpected value type associated with " \o key)
        ELSE IF ~MultikeyOk(k[1].data) THEN check_fail(self, MultikeyErr)
        ELSE IF m = None THEN check_fail(self, "no message associated with " \o msg)
        ELSE IF ~IsData(m[1])
        THEN check_fail(self, "unexpected value type associated with " \o msg)
        ELSE IF StkLen(self.pstack) < 1
        THEN check_fail(self, "not enough parameters (" \o ToString(StkLen(self.pstack))
                              \o ") on the stack for check_signature (" \o key
                              \o ", " \o msg \o ")")
        ELSE IF t[1].tag # "Bin" THEN check_fail(self, "no multisig on stack")
        ELSE IF ~MultisigOk(t[1].data) THEN check_fail(self, MultisigErr)
        ELSE IF ~VerifyViewOk(Multikey(k[1].data)) THEN check_fail(self, VerifyViewErr)
        ELSE IF Verify(Multikey(k[1].data), Multisig(t[1].data), Bytes(m[1]))
        THEN succeed([self EXCEPT !.pstack = StkPop(self.pstack)])
        ELSE check_fail(self, VerifyErr)

\* check_signature testing the arity of pstack before it looks up the key
check_signature_arity_first(self, key, msg) ==
    LET k == get(self.current, key)
        m == get(self.proposed, msg)
        t == StkTop(self.pstack)
    IN  IF StkLen(self.pstack) < 1
        THEN check_fail(self, "not enough parameters (" \o ToString(StkLen(self.pstack))
                              \o ") on the stack for check_signature (" \o key
                              \o ", " \o msg \o ")")
        ELSE IF k = None THEN check_fail(self, "no multikey associated with " \o key)
        ELSE IF k[1].tag # "Bin"
        THEN check_fail(self, "unexpected value type associated with " \o key)
        ELSE IF ~MultikeyOk(k[1].data) THEN check_fail(self, MultikeyErr)
        ELSE IF m = None THEN check_fail(self, "no message associated with " \o msg)
        ELSE IF ~IsData(m[1])
        THEN check_fail(self, "unexpected value type associated with " \o msg)
        ELSE IF t[1].tag # "Bin" THEN check_fail(self, "no multisig on stack")
        ELSE IF ~MultisigOk(t[1].data) THEN check_fail(self, MultisigErr)
        ELSE IF ~VerifyViewOk(Multikey(k[1].data)) THEN check_fail(self, VerifyViewErr)
        ELSE IF Verify(Multikey(k[1].data), Multisig(t[1].data), Bytes(m[1]))
        THEN succeed([self EXCEPT !.pstack = StkPop(self.pstack)])
        ELSE check_fail(self, VerifyErr)

\* Context::check_signature
check_signature(self, key, msg) ==
    LET k == get(self.current, key)
        m == get(self.proposed, msg)
        t == StkTop(self.pstack)
    IN  IF k = None THEN check_fail(self, "no multikey associated with " \o key)
        ELSE IF k[1].tag # "Bin"
        THEN check_fail(self, "unexpected value type associated with " \o key)
        ELSE IF ~MultikeyOk(k[1].data) THEN check_fail(self, MultikeyErr)
        ELSE IF m = None THEN check_fail(self, "no message associated with " \o msg)
        ELSE IF ~IsData(m[1])
        THEN check_fail(self, "unexpected value type associated with " \o msg)
        ELSE IF StkLen(self.pstack) < 1
        THEN check_fail(self, "not enough parameters (" \o ToString(StkLen(self.pstack))
                              \o ") on the stack for check_signature (" \o key
                              \o ", " \o msg \o ")")
        ELSE IF t[1].tag # "Bin" THEN check_fail(self, "no multisig on stack")
        ELSE IF ~MultisigOk(t[1].data) THEN check_fail(self, MultisigErr)
        ELSE IF ~VerifyViewOk(Multikey(k[1].data)) THEN check_fail(self, VerifyViewErr)
        ELSE IF Verify(Multikey(k[1].data), Multisig(t[1].data), Bytes(m[1]))
        THEN succeed([self EXCEPT !.pstack = StkPop(self.pstack)])
        ELSE check_fail(self, VerifyErr)

\* check_preimage comparing digests only, hashed with one fixed codec
check_preimage_any_codec(self, key) ==
    LET h == get(self.current, key)
        t == StkTop(self.pstack)
    IN  IF h = None THEN check_fail(self, "kvp missing key: " \o key)
        ELSE IF h[1].tag # "Bin"
        THEN check_fail(self, "unexpected value type associated with " \o key)
        ELSE IF ~MultihashOk(h[1].data) THEN check_fail(self, MultihashErr)
        ELSE IF StkLen(self.pstack) < 1
        THEN check_fail(self, "not enough parameters on the stack for check_preimage: "
                              \o ToString(StkLen(self.pstack)))
        ELSE IF ~IsData(t[1]) THEN check_fail(self, "no multihash data on stack")
        ELSE IF Multihash(h[1].data).digest = Digest(Sha3, Bytes(t[1]))
        THEN succeed([self EXCEPT !.pstack = StkPop(self.pstack)])
        ELSE check_fail(self, "preimage doesn't match")

\* check_preimage leaving the preimage on pstack when it succeeds
check_preimage_keep_top(self, key) ==
    LET h == get(self.current, key)
        t == StkTop(self.pstack)
    IN  IF h = None THEN check_fail(self, "kvp missing key: " \o key)
        ELSE IF h[1].tag # "Bin"
        THEN check_fail(self, "unexpected value type associated with " \o key)
        ELSE IF ~MultihashOk(h[1].data) THEN check_fail(self, MultihashErr)
        ELSE IF StkLen(self.pstack) < 1
        THEN check_fail(self, "not enough parameters on the stack for check_preimage: "
                              \o ToString(StkLen(self.pstack)))
        ELSE IF ~IsData(t[1]) THEN check_fail(self, "no multihash data on stack")
        ELSE IF Multihash(h[1].data) = MhBuild(Multihash(h[1].data).codec, Bytes(t[1]))
        THEN succeed(self)
        ELSE check_fail(self, "preimage doesn't match")

\* Context::check_preimage
check_preimage(self, key) ==
    LET h == get(self.current, key)
        t == StkTop(self.pstack)
    IN  IF h = None THEN check_fail(self, "kvp missing key: " \o key)
        ELSE IF h[1].tag # "Bin"
        THEN check_fail(self, "unexpected value type associated with " \o key)
        ELSE IF ~MultihashOk(h[1].data) THEN check_fail(self, MultihashErr)
        ELSE IF StkLen(self.pstack) < 1
        THEN check_fail(self, "not enough parameters on the stack for check_preimage: "
                              \o ToString(StkLen(self.pstack)))
        ELSE IF ~IsData(t[1]) THEN check_fail(self, "no multihash data on stack")
        ELSE IF Multihash(h[1].data) = MhBuild(Multihash(h[1].data).codec, Bytes(t[1]))
        THEN succeed([self EXCEPT !.pstack = StkPop(self.pstack)])
        ELSE check_fail(self, "preimage doesn't match")

\* check_eq comparing the Values, variant and hint included
check_eq_same_value(self, key) ==
    LET v == get(self.current, key)
        t == StkTop(self.pstack)
    IN  IF v = None \/ ~IsData(v[1]) THEN check_fail(self, "kvp missing key: " \o key)
        ELSE IF StkIsEmpty(self.pstack)
        THEN check_fail(self, "not enough parameters on the stack for check_eq: "
                              \o ToString(StkLen(self.pstack)))
        ELSE IF ~IsData(t[1]) THEN check_fail(self, "no value on the stack")
        ELSE IF v[1] = t[1]
        THEN succeed([self EXCEPT !.pstack = StkPop(self.pstack)])
        ELSE check_fail(self, "values don't match")

\* Context::check_eq
check_eq(self, key) ==
    LET v == get(self.current, key)
        t == StkTop(self.pstack)
    IN  IF v = None \/ ~IsData(v[1]) THEN check_fail(self, "kvp missing key: " \o key)
        ELSE IF StkIsEmpty(self.pstack)
        THEN check_fail(self, "not enough parameters on the stack for check_eq: "
                              \o ToString(StkLen(self.pstack)))
        ELSE IF ~IsData(t[1]) THEN check_fail(self, "no value on the stack")
        ELSE IF Bytes(v[1]) = Bytes(t[1])
        THEN succeed([self EXCEPT !.pstack = StkPop(self.pstack)])
        ELSE check_fail(self, "values don't match")

-----------------------------------------------------------------------------
(* The data of the model *)

Keys == {"/pubkey", "/hash", "/entry/", "/entry/proof", "/nope"}

StoreKeys == Keys \ {"/nope"}

\* the arguments the model gives to each operator
PushKeys == Keys

BranchKeys == {"/entry/", "x"}

Domains == {"/", "/forks/child"}

SigKeys == {"/pubkey", "/nope"}

MsgKeys == {"/entry/", "/nope"}

PreimageKeys == {"/hash", "/pubkey", "/nope"}

EqKeys == {"/entry/", "/entry/proof", "/nope"}

CheckOps == {"check_signature", "check_preimage", "check_eq"}

\* the entry, as bytes and as the text "m"
EntryData == <<109>>

EntryText == <<109>>

\* the text "e-acute", and its UTF-8 bytes
AccentText == <<233>>

AccentBytes == <<195, 169>>

PubKeyData == <<MultikeyTag, Ed25519Pub, 1>>

\* a multikey of a codec that has no verify view
OtherKeyData == <<MultikeyTag, 0, 1>>

\* the signature of the entry by key 1, and by key 2
SigData == <<MultisigTag, 1>> \o EntryData

OtherSigData == <<MultisigTag, 2>> \o EntryData

HashData == <<Sha3>> \o Digest(Sha3, EntryData)

\* the hash of the signature, for a proof used as a preimage
ProofHashData == <<Sha3>> \o Digest(Sha3, SigData)

\* the same digest under the other codec tag
AltHashData == <<Sha3Alt>> \o Digest(Sha3, EntryData)

\* a key, the hash of the entry, the entry as text and a signature of it
StoreGood ==
    [k \in StoreKeys |->
        CASE k = "/pubkey" -> Bin("", PubKeyData)
          [] k = "/hash" -> Bin("", HashData)
          [] k = "/entry/" -> Str("", EntryText)
          [] OTHER -> Bin("", SigData)]

\* a key of the wrong variant, a hash with the wrong codec tag, the entry
\* as bytes with a hint, and the signature of another key
StoreOdd ==
    [k \in StoreKeys |->
        CASE k = "/pubkey" -> Str("", EntryText)
          [] k = "/hash" -> Bin("", AltHashData)
          [] k = "/entry/" -> Bin("hint", EntryData)
          [] OTHER -> Bin("", OtherSigData)]

\* a key that does not decode, a non-ASCII text and a marker
StoreBad ==
    [k \in StoreKeys |->
        CASE k = "/pubkey" -> Bin("", AccentBytes)
          [] k = "/hash" -> Bin("", HashData)
          [] k = "/entry/" -> Str("", AccentText)
          [] OTHER -> Success(0)]

\* no hash, a key of an unsupported codec and a marker as the entry
StoreOther ==
    [k \in StoreKeys \ {"/hash"} |->
        CASE k = "/pubkey" -> Bin("", OtherKeyData)
          [] k = "/entry/" -> Failure("entry")
          [] OTHER -> Bin("", SigData)]

\* only the entry and its proof: no key and no hash
StoreEntry ==
    [k \in {"/entry/", "/entry/proof"} |->
        IF k = "/entry/" THEN Str("", EntryText) ELSE Bin("", SigData)]

\* only the key and the hash: no entry and no proof
StorePolicy ==
    [k \in {"/pubkey", "/hash"} |->
        IF k = "/pubkey" THEN Bin("", PubKeyData) ELSE Bin("", HashData)]

\* the (current, proposed) stores a Context is made of
StorePairs ==
    {<<StoreGood, StoreGood>>, <<StoreGood, StoreOdd>>, <<StoreGood, StoreBad>>,
     <<StoreOdd, StoreGood>>, <<StoreBad, StoreBad>>, <<StoreOther, StoreGood>>,
     <<StoreGood, StoreOther>>, <<StoreEntry, StoreGood>>, <<StoreGood, StorePolicy>>}

\* the Contexts made by Context::new, with no domain set
NewContexts == {new(sp[1], sp[2]) : sp \in StorePairs}

\* the Contexts the operators are called on: new ones and, for one pair of
\* stores, one whose domain has been set
Contexts ==
    NewContexts \cup
    {with_domain(new(StoreGood, StoreGood), d) : d \in Domains}

NoContext == [none |-> TRUE]

NoCall == [op |-> "none"]

\* no call made yet
NoTally == [hits |-> 0, misses |-> 0, origin |-> <<>>]

\* the tally after a call of op that returned ret: a push hits when it
\* returns true and misses otherwise; a push that missed and every check
\* record one marker
Tallied(op, ret) ==
    [hits |-> IF op = "push" /\ ret = TRUE THEN tally.hits + 1 ELSE tally.hits,
     misses |-> IF op = "push" /\ ret = FALSE THEN tally.misses + 1 ELSE tally.misses,
     origin |-> IF op \in CheckOps THEN Append(tally.origin, "check")
                ELSE IF op = "push" /\ ret = FALSE THEN Append(tally.origin, "push")
                ELSE tally.origin]

\* a call record: the operator, its arguments, the Context it acted on
\* ("context" or "clone"), that Context before and after, and the result
Call(op, key, msg, on, before, r) ==
    [op |-> op, key |-> key, msg |-> msg, on |-> on, before |-> before,
     after |-> r.ctx, ret |-> r.ret]

CanCall == calls < MaxCalls

-----------------------------------------------------------------------------
(* Spec: any sequence of operator calls on a new Context *)

Init ==
    /\ context \in Contexts
    /\ last = NoCall
    /\ calls = 0
    /\ stage = "Ctx"
    /\ clone = NoContext
    /\ engine = <<>>
    /\ script = None
    /\ pc = 0
    /\ value = None
    /\ result = None
    /\ start = None
    /\ builder = None
    /\ attempts = 0
    /\ puts = 0
    /\ returned = <<>>
    /\ checks = 0
    /\ mutex = "free"
    /\ tally = NoTally

\* one operator call on the Context, with its result r
Called(op, key, msg, r) ==
    /\ context' = r.ctx
    /\ last' = Call(op, key, msg, "context", context, r)
    /\ calls' = calls + 1
    /\ checks' = IF op \in CheckOps THEN checks + 1 ELSE checks
    /\ tally' = Tallied(op, r.ret)
    /\ UNCHANGED evalVars

CallPush ==
    /\ CanCall
    /\ \E key \in PushKeys : Called("push", key, "", push(context, key))

CallBranch ==
    /\ CanCall
    /\ \E key \in BranchKeys : Called("branch", key, "", branch(context, key))

CallCheckSignature ==
    /\ CanCall
    /\ \E key \in SigKeys, msg \in MsgKeys :
          Called("check_signature", key, msg, check_signature(context, key, msg))

CallCheckPreimage ==
    /\ CanCall
    /\ \E key \in PreimageKeys :
          Called("check_preimage", key, "", check_preimage(context, key))

CallCheckEq ==
    /\ CanCall
    /\ \E key \in EqKeys : Called("check_eq", key, "", check_eq(context, key))

Next ==
    \/ CallPush
    \/ CallBranch
    \/ CallCheckSignature
    \/ CallCheckPreimage
    \/ CallCheckEq

Spec == Init /\ [][Next]_vars

-----------------------------------------------------------------------------
(* The expression evaluator.  A script is a list of operator calls joined  *)
(* by "||" (kind "or"), by "&&" (kind "and") or written as statements      *)
(* (kind "seq"); kind "bad" is a script that does not compile and kind     *)
(* "true" the script made of the literal true.  The value of a script with *)
(* calls is the value of the last call evaluated.                          *)

Op(op, key, msg) == [op |-> op, key |-> key, msg |-> msg]

Script(kind, ops) == [kind |-> kind, calls |-> ops]

\* push("/entry/"); push("/entry/proof");
UnlockBoth == Script("seq", <<Op("push", "/entry/", ""), Op("push", "/entry/proof", "")>>)

\* push("/nope"); push("/entry/");
UnlockMiss == Script("seq", <<Op("push", "/nope", ""), Op("push", "/entry/", "")>>)

\* push("/hash"); push("/entry/");
UnlockHash == Script("seq", <<Op("push", "/hash", ""), Op("push", "/entry/", "")>>)

\* branch("/entry/"); push("/entry/proof");
UnlockBranch ==
    Script("seq", <<Op("branch", "/entry/", ""), Op("push", "/entry/proof", "")>>)

\* push("/entry/"); check_preimage("/hash")
UnlockCheck ==
    Script("seq", <<Op("push", "/entry/", ""), Op("check_preimage", "/hash", "")>>)

UnlockScripts == {UnlockBoth, UnlockMiss, UnlockHash, UnlockBranch, UnlockCheck}

\* check_signature("/nope", "/entry/") || check_signature("/pubkey", "/entry/")
\*   || check_preimage("/hash")
LockThree ==
    Script("or", <<Op("check_signature", "/nope", "/entry/"),
                   Op("check_signature", "/pubkey", "/entry/"),
                   Op("check_preimage", "/hash", "")>>)

\* check_eq("/entry/") || check_preimage("/hash") || check_eq("/entry/proof")
LockEq ==
    Script("or", <<Op("check_eq", "/entry/", ""), Op("check_preimage", "/hash", ""),
                   Op("check_eq", "/entry/proof", "")>>)

\* check_preimage("/hash") || check_signature("/pubkey", "/entry/")
LockTwo ==
    Script("or", <<Op("check_preimage", "/hash", ""),
                   Op("check_signature", "/pubkey", "/entry/")>>)

\* check_signature("/pubkey", "/entry/") && check_preimage("/hash")
LockAnd ==
    Script("and", <<Op("check_signature", "/pubkey", "/entry/"),
                    Op("check_preimage", "/hash", "")>>)

\* push("/nope") || push("/entry/") || check_eq("/entry/")
LockPush == Script("or", <<Op("push", "/nope", ""), Op("push", "/entry/", ""),
                           Op("check_eq", "/entry/", "")>>)

\* a lock expression that does not compile
LockBad == Script("bad", <<>>)

\* true
LockTrue == Script("true", <<>>)

LockScripts == {LockThree, LockEq, LockTwo, LockAnd, LockPush, LockBad, LockTrue}

\* the value of a script before any call has been evaluated
Literal(s) == IF s.kind = "true" THEN Some(TRUE) ELSE None

Ok(v) == [ok |-> TRUE, v |-> v]

Err(e) == [ok |-> FALSE, err |-> e]

\* the operator a call names, applied to a Context
Apply(c, self) ==
    CASE c.op = "push" -> push(self, c.key)
      [] c.op = "branch" -> branch(self, c.key)
      [] c.op = "check_signature" -> check_signature(self, c.key, c.msg)
      [] c.op = "check_preimage" -> check_preimage(self, c.key)
      [] c.op = "check_eq" -> check_eq(self, c.key)

\* the run in progress: its mode, its script, and the Contexts when it began
\* (and, once it is over, the Context the script ran on as it left it)
Run(mode, s, ctx, cl) ==
    [mode |-> mode, script |-> s, context |-> ctx, clone |-> cl, calls |-> calls,
     checks |-> checks, final |-> NoContext]

Running == pc > 0

AtCall == Running /\ pc <= Len(start[1].script.calls)

AtEnd == Running /\ pc = Len(start[1].script.calls) + 1

\* "||" stops at the first true operand, "&&" at the first false one
NextPc(kind, ret, n) ==
    IF (kind = "or" /\ ret = TRUE) \/ (kind = "and" /\ ret = FALSE)
    THEN n + 1
    ELSE pc + 1

\* the closure registered under the name of the next call runs on the
\* Context it captured
EvalCall ==
    /\ AtCall
    /\ start[1].script.kind # "bad"
    /\ stage = "Single" => mutex = "closure"
    /\ LET c == start[1].script.calls[pc] IN
       /\ c.op \in DOMAIN engine
       /\ LET on == engine[c.op]
              self == IF on = "context" THEN context ELSE clone
              r == Apply(c, self)
          IN  /\ IF on = "context"
                 THEN context' = r.ctx /\ UNCHANGED clone
                 ELSE clone' = r.ctx /\ UNCHANGED context
              /\ last' = Call(c.op, c.key, c.msg, on, self, r)
              /\ value' = Some(r.ret)
              /\ tally' = Tallied(c.op, r.ret)
              /\ pc' = NextPc(start[1].script.kind, r.ret, Len(start[1].script.calls))
    /\ calls' = calls + 1
    /\ checks' = IF start[1].script.calls[pc].op \in CheckOps THEN checks + 1 ELSE checks
    /\ mutex' = "free"
    /\ UNCHANGED <<stage, engine, script, result, start, builder, attempts, puts,
                   returned>>

\* the expression evaluator raises: the script does not compile, it calls
\* a function that is not registered, or its value is not a boolean
Raises ==
    IF start[1].script.kind = "bad" THEN TRUE
    ELSE IF AtCall THEN start[1].script.calls[pc].op \notin DOMAIN engine
    ELSE value[1] \notin BOOLEAN

-----------------------------------------------------------------------------
(* SpecEval: the staged evaluator, from spec.md 4.5 and 4.6 *)

InitEval ==
    /\ \E sp \in StorePairs, u \in UnlockScripts, d \in Domains :
          builder = Some([unlock |-> u, current |-> sp[1], proposed |-> sp[2],
                          domain |-> d])
    /\ stage = "Builder"
    /\ context = NoContext
    /\ clone = NoContext
    /\ engine = <<>>
    /\ last = NoCall
    /\ script = None
    /\ pc = 0
    /\ value = None
    /\ result = None
    /\ start = None
    /\ calls = 0
    /\ attempts = 0
    /\ puts = 0
    /\ returned = <<>>
    /\ checks = 0
    /\ mutex = "free"
    /\ tally = NoTally

\* Builder::try_unlock, up to the run of the unlock expression: the Initial
\* evaluator has push and branch registered and current = proposed
TryUnlock ==
    /\ stage = "Builder"
    /\ LET b == builder[1]
           c == [new(b.proposed, b.proposed) EXCEPT !.domain = b.domain]
       IN  /\ context' = c
           /\ script' = Some(b.unlock)
           /\ start' = Some(Run("unlock", b.unlock, c, NoContext))
           /\ value' = Literal(b.unlock)
    /\ engine' = [op \in {"push", "branch"} |-> "context"]
    /\ stage' = "Initial"
    /\ pc' = 1
    /\ UNCHANGED <<clone, last, result, builder, calls, attempts, puts, returned, checks, mutex, tally>>

\* the unlock expression raised: try_unlock returns the error
UnlockError ==
    /\ stage = "Initial" /\ Running
    /\ Raises
    /\ stage' = "Failed"
    /\ result' = Err("script error")
    /\ pc' = 0
    /\ UNCHANGED <<context, clone, engine, last, script, value, start, builder,
                   calls, attempts, puts, returned, checks, mutex, tally>>

\* try_unlock leaving the proposed store in place as current
Unlocked_keep_current ==
    /\ stage = "Initial" /\ AtEnd
    /\ ~Raises
    /\ stage' = "Unlocked"
    /\ result' = Ok(value[1])
    /\ start' = Some([start[1] EXCEPT !.final = context])
    /\ pc' = 0
    /\ UNCHANGED <<context, clone, engine, last, script, value, builder, calls, attempts,
                   puts, returned, checks, mutex, tally>>

\* try_unlock building the Unlocked evaluator around a new Context
Unlocked_new_context ==
    /\ stage = "Initial" /\ AtEnd
    /\ ~Raises
    /\ context' = new(builder[1].current, context.proposed)
    /\ stage' = "Unlocked"
    /\ result' = Ok(value[1])
    /\ start' = Some([start[1] EXCEPT !.final = context])
    /\ pc' = 0
    /\ UNCHANGED <<clone, engine, last, script, value, builder, calls, attempts, puts,
                   returned, checks, mutex, tally>>

\* Builder::try_unlock after the run: current is overwritten with the
\* caller's current store and the evaluator becomes Unlocked
Unlocked ==
    /\ stage = "Initial" /\ AtEnd
    /\ ~Raises
    /\ context' = [context EXCEPT !.current = builder[1].current]
    /\ stage' = "Unlocked"
    /\ result' = Ok(value[1])
    /\ start' = Some([start[1] EXCEPT !.final = context])
    /\ pc' = 0
    /\ UNCHANGED <<clone, engine, last, script, value, builder, calls, attempts, puts, returned, checks, mutex, tally>>

\* try_lock, up to the run of the lock expression: the Context is cloned
\* and the check operators are registered again, on the clone
TryLock ==
    /\ stage = "Unlocked" /\ ~Running
    /\ attempts < MaxLocks
    /\ \E lock \in LockScripts :
          /\ start' = Some(Run("lock", lock, context, Clone(context)))
          /\ value' = Literal(lock)
    /\ clone' = Clone(context)
    /\ engine' = [op \in DOMAIN engine \cup CheckOps |->
                    IF op \in CheckOps THEN "clone" ELSE engine[op]]
    /\ pc' = 1
    /\ attempts' = attempts + 1
    /\ UNCHANGED <<context, stage, last, script, result, builder, calls, puts, returned, checks, mutex, tally>>

\* the lock expression raised: try_lock returns the error
LockError ==
    /\ stage = "Unlocked" /\ Running
    /\ Raises
    /\ result' = Err("script error")
    /\ returned' = Append(returned, [lock |-> start[1].script, result |-> result'])
    /\ start' = Some([start[1] EXCEPT !.final = clone])
    /\ clone' = NoContext
    /\ pc' = 0
    /\ UNCHANGED <<context, stage, engine, last, script, value, builder, calls, attempts,
                   puts, checks, mutex, tally>>

\* try_lock after the run: the top of the clone's rstack is returned and
\* the clone is dropped
Locked ==
    /\ stage = "Unlocked" /\ AtEnd
    /\ ~Raises
    /\ result' = Ok(StkTop(clone.rstack))
    /\ returned' = Append(returned, [lock |-> start[1].script, result |-> result'])
    /\ start' = Some([start[1] EXCEPT !.final = clone])
    /\ clone' = NoContext
    /\ pc' = 0
    /\ UNCHANGED <<context, stage, engine, last, script, value, builder, calls, attempts,
                   puts, checks, mutex, tally>>

NextEval ==
    \/ TryUnlock
    \/ EvalCall
    \/ UnlockError
    \/ Unlocked
    \/ TryLock
    \/ LockError
    \/ Locked

SpecEval == InitEval /\ [][NextEval]_vars

-----------------------------------------------------------------------------
(* SpecComrade: the single-context evaluator Comrade (lib.rs:20-119).  Its *)
(* Context has no domain and no check_eq; its other operators are those of *)
(* context.rs, line for line.                                              *)

Kvp(key, v) == [key |-> key, value |-> v]

\* the entry and its proof, as the tests put them
KvpsEntry ==
    <<Kvp("/entry/", Bin("", EntryData)), Kvp("/entry/proof", Bin("", SigData))>>

\* the policy: a public key and the hash of the proof
KvpsPolicy ==
    <<Kvp("/pubkey", Bin("", PubKeyData)), Kvp("/hash", Bin("", ProofHashData))>>

\* the policy with the hash alone
KvpsHash == <<Kvp("/hash", Bin("", ProofHashData))>>

\* a list that names "/hash" twice, with two values
KvpsTwice ==
    <<Kvp("/hash", Bin("", HashData)), Kvp("/pubkey", Bin("", PubKeyData)),
      Kvp("/hash", Bin("", ProofHashData))>>

\* the policy with the hash of the entry
KvpsGood ==
    <<Kvp("/pubkey", Bin("", PubKeyData)), Kvp("/hash", Bin("", HashData))>>

KvpLists == {KvpsEntry, KvpsPolicy, KvpsHash, KvpsTwice, KvpsGood}

\* check_preimage("/hash") || check_eq("/entry/")
LockPreEq ==
    Script("or", <<Op("check_preimage", "/hash", ""), Op("check_eq", "/entry/", "")>>)

ComradeScripts ==
    {UnlockBoth, UnlockHash, UnlockCheck, LockThree, LockEq, LockBad, LockPreEq,
     LockAnd}

\* ContextPairs::default
EmptyPairs == [k \in {} |-> Success(0)]

RECURSIVE PutAll(_, _)
PutAll(pairs, kvps) ==
    IF kvps = <<>> THEN pairs
    ELSE PutAll(put(pairs, Head(kvps).key, Head(kvps).value).pairs, Tail(kvps))

\* the record of the last put of a Comrade::put: the pair, the store before
\* and after, and the value put returned
PutCall(kvps, before, r) ==
    [op |-> "put", kvps |-> kvps, key |-> kvps[Len(kvps)].key,
     value |-> kvps[Len(kvps)].value, before |-> before, after |-> r.pairs,
     ret |-> r.ret]

\* Comrade::default: a default Context, and check_signature, push and
\* check_preimage registered on the engine
InitComrade ==
    /\ context = [current |-> EmptyPairs, proposed |-> EmptyPairs, check_count |-> 0,
                  rstack |-> <<>>, pstack |-> <<>>]
    /\ engine = [op \in {"check_signature", "push", "check_preimage"} |-> "context"]
    /\ script = None
    /\ stage = "Single"
    /\ clone = NoContext
    /\ last = NoCall
    /\ pc = 0
    /\ value = None
    /\ result = None
    /\ start = None
    /\ builder = None
    /\ calls = 0
    /\ attempts = 0
    /\ puts = 0
    /\ returned = <<>>
    /\ checks = 0
    /\ mutex = "free"
    /\ tally = NoTally

\* Mutex::lock by the given caller: the caller holds the lock if it was
\* free and blocks for ever if it was held (the Mutex is not recursive and
\* there is one thread)
Lock(holder) == IF mutex = "free" THEN holder ELSE "deadlock"

\* an operator closure begins: it locks the Mutex around the Context
\* (the guard is dropped when the closure returns, in EvalCall)
ClosureLock ==
    /\ stage = "Single" /\ AtCall
    /\ start[1].script.kind # "bad"
    /\ start[1].script.calls[pc].op \in DOMAIN engine
    /\ mutex \notin {"closure", "deadlock"}
    /\ mutex' = Lock("closure")
    /\ UNCHANGED <<context, last, stage, clone, engine, script, pc, value, result,
                   start, builder, calls, attempts, puts, returned, checks, tally>>

\* put adding the pairs to the current store without emptying it first
ComradePut_merge ==
    /\ stage = "Single" /\ ~Running
    /\ mutex = "free"
    /\ puts < MaxPuts
    /\ \E kvps \in KvpLists :
          LET n == Len(kvps)
              before == PutAll(context.current, SubSeq(kvps, 1, n - 1))
              r == put(before, kvps[n].key, kvps[n].value)
          IN  /\ context' = [context EXCEPT !.proposed = context.current,
                                            !.current = PutAll(context.current, kvps)]
              /\ last' = PutCall(kvps, before, r)
    /\ puts' = puts + 1
    /\ UNCHANGED <<stage, clone, engine, script, pc, value, result, start,
                   builder, calls, attempts, returned, checks, mutex, tally>>

\* Comrade::put: the lock is held from the first statement to the return
ComradePut ==
    /\ stage = "Single" /\ ~Running
    /\ mutex = "free"
    /\ puts < MaxPuts
    /\ \E kvps \in KvpLists :
          LET n == Len(kvps)
              before == PutAll(EmptyPairs, SubSeq(kvps, 1, n - 1))
              r == put(before, kvps[n].key, kvps[n].value)
          IN  /\ context' = [context EXCEPT !.proposed = context.current,
                                            !.current = PutAll(EmptyPairs, kvps)]
              /\ last' = PutCall(kvps, before, r)
    /\ puts' = puts + 1
    /\ UNCHANGED <<stage, clone, engine, script, pc, value, result, start,
                   builder, calls, attempts, returned, checks, mutex, tally>>

\* Comrade::returns: the Context is locked for the time it takes to clone
\* its rstack, which is returned
ComradeReturns ==
    /\ stage = "Single" /\ ~Running
    /\ mutex = "free"
    /\ last' = [op |-> "returns", ret |-> context.rstack]
    /\ UNCHANGED <<context, stage, clone, engine, script, pc, value, result, start,
                   builder, calls, attempts, puts, returned, checks, mutex, tally>>

\* Comrade::load
ComradeLoad ==
    /\ stage = "Single" /\ ~Running
    /\ attempts < MaxRuns
    /\ \E s \in ComradeScripts : script' = Some(s)
    /\ UNCHANGED <<context, last, stage, clone, engine, pc, value, result, start,
                   builder, calls, attempts, puts, returned, checks, mutex, tally>>

\* run treating a missing script as one evaluated to false
ComradeRunNoScript_fails ==
    /\ stage = "Single" /\ ~Running
    /\ attempts < MaxRuns
    /\ script = None
    /\ result' = Ok(FALSE)
    /\ context' = fail(context, "no script loaded").ctx
    /\ attempts' = attempts + 1
    /\ UNCHANGED <<last, stage, clone, engine, script, pc, value, start,
                   builder, calls, puts, returned, checks, mutex, tally>>

\* Comrade::run with no script loaded
ComradeRunNoScript ==
    /\ stage = "Single" /\ ~Running
    /\ attempts < MaxRuns
    /\ script = None
    /\ result' = Err("no script loaded")
    /\ attempts' = attempts + 1
    /\ UNCHANGED <<context, last, stage, clone, engine, script, pc, value, start,
                   builder, calls, puts, returned, checks, mutex, tally>>

\* run starting from empty stacks and a check_count of 0
ComradeRun_fresh ==
    /\ stage = "Single" /\ ~Running
    /\ attempts < MaxRuns
    /\ script # None
    /\ context' = [context EXCEPT !.pstack = <<>>, !.rstack = <<>>, !.check_count = 0]
    /\ start' = Some(Run("run", script[1], context', NoContext))
    /\ pc' = 1
    /\ value' = Literal(script[1])
    /\ attempts' = attempts + 1
    /\ UNCHANGED <<last, stage, clone, engine, script, result, builder,
                   calls, puts, returned, checks, mutex, tally>>

\* run keeping the Context locked while the script is evaluated
ComradeRun_holding ==
    /\ stage = "Single" /\ ~Running
    /\ attempts < MaxRuns
    /\ script # None
    /\ start' = Some(Run("run", script[1], context, NoContext))
    /\ pc' = 1
    /\ value' = Literal(script[1])
    /\ attempts' = attempts + 1
    /\ mutex' = Lock("run")
    /\ UNCHANGED <<context, last, stage, clone, engine, script, result, builder,
                   calls, puts, returned, checks, tally>>

\* Comrade::run, up to the evaluation of the script
ComradeRun ==
    /\ stage = "Single" /\ ~Running
    /\ attempts < MaxRuns
    /\ script # None
    /\ start' = Some(Run("run", script[1], context, NoContext))
    /\ pc' = 1
    /\ value' = Literal(script[1])
    /\ attempts' = attempts + 1
    /\ UNCHANGED <<context, last, stage, clone, engine, script, result, builder,
                   calls, puts, returned, checks, mutex, tally>>

\* run recording the engine's error as a failed check
ComradeRunError_marks ==
    /\ stage = "Single" /\ Running
    /\ Raises
    /\ result' = Err("script error")
    /\ context' = check_fail(context, "script error").ctx
    /\ start' = Some([start[1] EXCEPT !.final = context'])
    /\ pc' = 0
    /\ UNCHANGED <<last, stage, clone, engine, script, value, builder,
                   calls, attempts, puts, returned, checks, mutex, tally>>

\* Comrade::run when the engine raises: the error is returned
ComradeRunError ==
    /\ stage = "Single" /\ Running
    /\ Raises
    /\ result' = Err("script error")
    /\ start' = Some([start[1] EXCEPT !.final = context])
    /\ pc' = 0
    /\ UNCHANGED <<context, last, stage, clone, engine, script, value, builder,
                   calls, attempts, puts, returned, checks, mutex, tally>>

\* Comrade::run when the script has been evaluated: its value is returned
ComradeRunDone ==
    /\ stage = "Single" /\ AtEnd
    /\ ~Raises
    /\ result' = Ok(value[1])
    /\ start' = Some([start[1] EXCEPT !.final = context])
    /\ pc' = 0
    /\ UNCHANGED <<context, last, stage, clone, engine, script, value, builder,
                   calls, attempts, puts, returned, checks, mutex, tally>>

NextComrade ==
    \/ ClosureLock
    \/ ComradePut
    \/ ComradeReturns
    \/ ComradeLoad
    \/ ComradeRunNoScript
    \/ ComradeRun
    \/ EvalCall
    \/ ComradeRunError
    \/ ComradeRunDone

SpecComrade == InitComrade /\ [][NextComrade]_vars

-----------------------------------------------------------------------------
(* Properties of the operators, checked under Spec *)

IsCheck(call) == call.op \in CheckOps

IsFailure(v) == v.tag = "Failure"

\* C1: a check that succeeds appends exactly Success(k) to rstack, k the
\* check_count at that moment, leaves check_count as it was and pops exactly
\* the top of pstack.
C1_SuccessfulCheck ==
    (IsCheck(last) /\ last.ret = TRUE) =>
        /\ context.rstack = Append(last.before.rstack, Success(last.before.check_count))
        /\ context.check_count = last.before.check_count
        /\ last.before.pstack # <<>>
        /\ context.pstack = SubSeq(last.before.pstack, 1, Len(last.before.pstack) - 1)

\* a check succeeded after a failed one, with a value left below the popped top
C1_Witness ==
    /\ IsCheck(last) /\ last.ret = TRUE
    /\ last.before.check_count >= 1
    /\ Len(context.pstack) >= 1

\* C2: a check that fails appends exactly one Failure to rstack, increments
\* check_count by one, returns false and leaves pstack as it was.
C2_FailedCheck ==
    (IsCheck(last) /\ last.ret # TRUE) =>
        /\ last.ret = FALSE
        /\ Len(context.rstack) = Len(last.before.rstack) + 1
        /\ SubSeq(context.rstack, 1, Len(last.before.rstack)) = last.before.rstack
        /\ IsFailure(context.rstack[Len(context.rstack)])
        /\ context.check_count = last.before.check_count + 1
        /\ context.pstack = last.before.pstack

\* a check failed on a verification mismatch with a value on pstack
C2_Witness ==
    /\ IsCheck(last) /\ last.ret = FALSE
    /\ last.before.pstack # <<>>
    /\ context.rstack[Len(context.rstack)] \in
          {Failure("values don't match"), Failure("preimage doesn't match"),
           Failure(VerifyErr)}

\* C7: push of a key of current puts a copy of current[key] on top of pstack,
\* returns true and changes nothing else.
C7_PushHit ==
    (last.op = "push" /\ last.key \in DOMAIN last.before.current) =>
        /\ last.ret = TRUE
        /\ context.pstack = Append(last.before.pstack, last.before.current[last.key])
        /\ context.rstack = last.before.rstack
        /\ context.check_count = last.before.check_count
        /\ context.current = last.before.current
        /\ context.proposed = last.before.proposed
        /\ context.domain = last.before.domain

\* a push hit on a Context that already has markers and a parameter
C7_Witness ==
    /\ last.op = "push" /\ last.key \in DOMAIN last.before.current
    /\ last.before.rstack # <<>>
    /\ last.before.pstack # <<>>
    /\ last.before.current # last.before.proposed

-----------------------------------------------------------------------------
(* Properties of the evaluators *)

\* the last run, in the given mode, is over
Finished(mode) ==
    /\ start # None
    /\ start[1].mode = mode
    /\ ~Running
    /\ start[1].final # NoContext

\* the Context the last run's check operators ran on, when the run began
Base == IF start[1].mode = "lock" THEN start[1].clone ELSE start[1].context

\* the markers the last run appended to that Context's rstack
Added == SubSeq(start[1].final.rstack, Len(Base.rstack) + 1, Len(start[1].final.rstack))

\* the script is a disjunction of check operator calls
CheckDisjunction(s) ==
    /\ s.kind = "or"
    /\ \A i \in DOMAIN s.calls : s.calls[i].op \in CheckOps

\* the checks of the script that hold on a Context
Holding(s, self) == {i \in DOMAIN s.calls : Apply(s.calls[i], self).ret = TRUE}

Least(S) == CHOOSE i \in S : \A j \in S : i <= j

\* C3: after try_lock has returned, whatever the lock expression and its
\* outcome, the caller's Context is what it was before the call.
C3_TryLockIsolation == Finished("lock") => context = start[1].context

\* C4: a disjunction of checks, run on a Context whose check_count is 0 and
\* whose first holding check is the i-th, is true, appends i-1 Failure
\* markers and then Success(i-1) to rstack, and calls no check after the i-th.
C4_Disjunction ==
    ( /\ Finished("run") /\ result.ok
      /\ CheckDisjunction(start[1].script)
      /\ start[1].context.check_count = 0
      /\ Holding(start[1].script, start[1].context) # {} ) =>
        LET i == Least(Holding(start[1].script, start[1].context))
            final == start[1].final
        IN
        /\ result.v = TRUE
        /\ SubSeq(final.rstack, 1, Len(Base.rstack)) = Base.rstack
        /\ Len(Added) = i
        /\ \A j \in 1..(i - 1) : IsFailure(Added[j])
        /\ Added[i] = Success(i - 1)
        /\ StkTop(final.rstack) = Some(Success(i - 1))
        /\ calls = start[1].calls + i
        /\ final.pstack = StkPop(Base.pstack)

\* only the third of three checks held: the top is Success(2), rstack has 3 markers
C4_Witness ==
    /\ Finished("run") /\ result.ok
    /\ start[1].script = LockThree
    /\ start[1].context.check_count = 0
    /\ Holding(LockThree, start[1].context) = {3}
    /\ StkTop(start[1].final.rstack) = Some(Success(2))
    /\ Len(start[1].final.rstack) = 3

\* C5: when every check of an n-way disjunction fails, try_lock returns
\* Some(Failure), the attempt's rstack has gained exactly n Failure markers,
\* its check_count has grown by n and its pstack is unchanged.
C5_AllFail ==
    ( /\ Finished("lock") /\ result.ok
      /\ CheckDisjunction(start[1].script)
      /\ Holding(start[1].script, start[1].clone) = {} ) =>
        LET n == Len(start[1].script.calls) IN
        /\ result.v # None /\ IsFailure(result.v[1])
        /\ SubSeq(start[1].final.rstack, 1, Len(Base.rstack)) = Base.rstack
        /\ Len(Added) = n
        /\ \A j \in 1..n : IsFailure(Added[j])
        /\ start[1].final.check_count = Base.check_count + n
        /\ start[1].final.pstack = Base.pstack

\* three checks failed on a fresh Context with witnesses on pstack
C5_Witness ==
    /\ Finished("lock") /\ result.ok
    /\ start[1].script = LockThree
    /\ Holding(LockThree, start[1].clone) = {}
    /\ start[1].clone.rstack = <<>>
    /\ start[1].clone.pstack # <<>>
    /\ Len(start[1].final.rstack) = 3
    /\ start[1].final.check_count = 3

\* C6: when try_lock returns Some(Success(n)), n is the number of checks
\* that failed during that attempt before the accepting check.
C6_SuccessCount ==
    ( /\ Finished("lock") /\ result.ok
      /\ result.v # None /\ result.v[1].tag = "Success" ) =>
        /\ Added # <<>>
        /\ Added[Len(Added)] = result.v[1]
        /\ result.v[1].count =
              Cardinality({j \in 1..(Len(Added) - 1) : IsFailure(Added[j])})

\* the second try_lock accepted after two failed checks, on an evaluator
\* whose unlock expression had left a Failure on rstack
C6_Witness ==
    /\ Finished("lock") /\ result.ok
    /\ result.v = Some(Success(2))
    /\ start[1].clone.rstack # <<>>
    /\ IsFailure(start[1].clone.rstack[1])
    /\ attempts = 2

\* C9: no check operator runs before the unlock expression has been run.
C9_NoCheckBeforeUnlock == (stage = "Single" /\ attempts <= 1) => ~IsCheck(last)

\* C10: in the unlock stage push hits exactly the keys of the proposed
\* store and pushes their values, so that when try_unlock returns every
\* value on pstack is a value of proposed.
C10_UnlockReadsProposed ==
    LET proposed == builder[1].proposed IN
    /\ (stage \in {"Initial", "Failed"} /\ last.op = "push") =>
          /\ last.ret = (last.key \in DOMAIN proposed)
          /\ last.ret => StkTop(context.pstack) = Some(proposed[last.key])
    /\ (stage = "Unlocked" /\ attempts = 0) =>
          \A i \in DOMAIN context.pstack :
              \E k \in DOMAIN proposed : context.pstack[i] = proposed[k]

\* the unlock expression's push missed a key that only the caller's
\* current store has
C10_Witness ==
    /\ stage = "Initial" /\ last.op = "push"
    /\ last.key \in DOMAIN builder[1].current
    /\ last.key \notin DOMAIN builder[1].proposed
    /\ last.ret = FALSE

-----------------------------------------------------------------------------
(* Properties of the operators, continued *)

IsOperator(call) == call.op \in {"push", "branch"} \cup CheckOps

\* C13: no operator call, successful or failing, changes the current or the
\* proposed store of the Context it acts on.
C13_StoresUnchanged ==
    IsOperator(last) =>
        /\ last.after.current = last.before.current
        /\ last.after.proposed = last.before.proposed
        /\ context.current = last.before.current
        /\ context.proposed = last.before.proposed

\* four calls, among them a push that hit, a check that succeeded and a
\* check that failed, on a Context whose two stores differ
C13_Witness ==
    /\ calls = MaxCalls
    /\ IsOperator(last)
    /\ context.current # context.proposed
    /\ context.check_count >= 1
    /\ \E i \in DOMAIN context.rstack : context.rstack[i].tag = "Success"
    /\ context.pstack # <<>>

\* the conditions under which check_signature(key, msg) accepts
SigHolds(self, key, msg) ==
    /\ key \in DOMAIN self.current
    /\ self.current[key].tag = "Bin"
    /\ MultikeyOk(self.current[key].data)
    /\ msg \in DOMAIN self.proposed
    /\ IsData(self.proposed[msg])
    /\ self.pstack # <<>>
    /\ self.pstack[Len(self.pstack)].tag = "Bin"
    /\ MultisigOk(self.pstack[Len(self.pstack)].data)
    /\ VerifyViewOk(Multikey(self.current[key].data))
    /\ Verify(Multikey(self.current[key].data),
              Multisig(self.pstack[Len(self.pstack)].data),
              Bytes(self.proposed[msg]))

\* the same Context with its two stores exchanged
Swapped(self) == [self EXCEPT !.current = self.proposed, !.proposed = self.current]

\* C15: check_signature(key, msg) succeeds exactly when current[key] is a
\* Bin that decodes to a public key, proposed[msg] is a Bin or Str, the top
\* of pstack is a Bin that decodes to a signature, and the signature
\* verifies under the key over the message bytes.
C15_CheckSignature ==
    last.op = "check_signature" =>
        last.ret = SigHolds(last.before, last.key, last.msg)

\* the check failed although the key is in proposed and a valid signature
\* of the message is on top of pstack: the key is not in current
C15_Witness ==
    /\ last.op = "check_signature"
    /\ last.ret = FALSE
    /\ last.key \notin DOMAIN last.before.current
    /\ last.key \in DOMAIN last.before.proposed
    /\ SigHolds([last.before EXCEPT !.current = last.before.proposed], last.key, last.msg)

\* the conditions of check_preimage(key) up to the comparison
PreimageReady(self, key) ==
    /\ key \in DOMAIN self.current
    /\ self.current[key].tag = "Bin"
    /\ MultihashOk(self.current[key].data)
    /\ self.pstack # <<>>
    /\ IsData(self.pstack[Len(self.pstack)])

\* the conditions under which check_preimage(key) accepts
PreimageHolds(self, key) ==
    /\ PreimageReady(self, key)
    /\ LET h == Multihash(self.current[key].data) IN
       MhBuild(h.codec, Bytes(self.pstack[Len(self.pstack)])) = h

\* C16: check_preimage(key) succeeds exactly when current[key] is a Bin
\* that decodes to a multihash h and the top of pstack is a Bin or Str whose
\* bytes, hashed with the codec of h, give h; a mismatch is reported as
\* "preimage doesn't match".
C16_CheckPreimage ==
    last.op = "check_preimage" =>
        /\ last.ret = PreimageHolds(last.before, last.key)
        /\ (PreimageReady(last.before, last.key) /\ last.ret = FALSE) =>
              StkTop(context.rstack) = Some(Failure("preimage doesn't match"))

\* the check failed on a multihash that has the digest of the top of pstack
\* under another codec tag
C16_Witness ==
    /\ last.op = "check_preimage"
    /\ last.ret = FALSE
    /\ PreimageReady(last.before, last.key)
    /\ LET h == Multihash(last.before.current[last.key].data)
           top == last.before.pstack[Len(last.before.pstack)]
       IN  \E c \in HashCodecs \ {h.codec} : h.digest = Digest(c, Bytes(top))

\* the conditions under which check_eq(key) accepts
EqHolds(self, key) ==
    /\ key \in DOMAIN self.current
    /\ IsData(self.current[key])
    /\ self.pstack # <<>>
    /\ IsData(self.pstack[Len(self.pstack)])
    /\ Bytes(self.current[key]) = Bytes(self.pstack[Len(self.pstack)])

\* C17: check_eq(key) succeeds exactly when current[key] and the top of
\* pstack are both Bin or Str and have the same bytes, whatever their
\* variants and hints.
C17_CheckEq ==
    last.op = "check_eq" => last.ret = EqHolds(last.before, last.key)

\* the check accepted a Bin on pstack against a Str in current
C17_Witness ==
    /\ last.op = "check_eq"
    /\ last.ret = TRUE
    /\ last.before.pstack[Len(last.before.pstack)].tag = "Bin"
    /\ last.before.current[last.key].tag = "Str"
    /\ Len(Bytes(last.before.current[last.key])) = 2

\* C18: branch(key) returns domain followed by key, with nothing between
\* them, and leaves the Context as it was.
C18_Branch ==
    last.op = "branch" =>
        /\ last.ret = last.before.domain \o last.key
        /\ (last.before.domain = "/forks/child" /\ last.key = "x") =>
              last.ret = "/forks/childx"
        /\ last.after = last.before
        /\ context = last.before

\* branch("x") on a Context with domain "/forks/child" and values on both stacks
C18_Witness ==
    /\ last.op = "branch"
    /\ last.key = "x"
    /\ context.domain = "/forks/child"
    /\ last.ret = "/forks/childx"
    /\ context.pstack # <<>>
    /\ context.rstack # <<>>

\* C19: push and the checks always return a boolean, and they return false
\* exactly when they have recorded one Failure marker.
C19_NoRaise ==
    (last.op = "push" \/ IsCheck(last)) =>
        /\ last.ret \in BOOLEAN
        /\ (last.ret = FALSE) <=>
              ( /\ Len(context.rstack) = Len(last.before.rstack) + 1
                /\ IsFailure(context.rstack[Len(context.rstack)]) )

\* every kind of error has been recovered: a missing key, a value of the
\* wrong variant, a decode error and an empty pstack
C19_Witness ==
    /\ calls = MaxCalls
    /\ context.check_count >= 3
    /\ \E i, j, k \in DOMAIN context.rstack :
          /\ context.rstack[i] \in {Failure(MultikeyErr), Failure(MultisigErr),
                                     Failure(MultihashErr)}
          /\ context.rstack[j] = Failure("kvp missing key: /nope")
          /\ context.rstack[k] \in
                {Failure("unexpected value type associated with " \o key) : key \in Keys}

\* the key of the check is in current, with the value the check expects
WellFormed(call) ==
    LET self == call.before IN
    CASE call.op = "check_signature" ->
            /\ call.key \in DOMAIN self.current
            /\ self.current[call.key].tag = "Bin"
            /\ MultikeyOk(self.current[call.key].data)
      [] call.op = "check_preimage" ->
            /\ call.key \in DOMAIN self.current
            /\ self.current[call.key].tag = "Bin"
            /\ MultihashOk(self.current[call.key].data)
      [] call.op = "check_eq" ->
            /\ call.key \in DOMAIN self.current
            /\ IsData(self.current[call.key])

\* C20: a check called with an empty pstack and a well-formed key fails
\* through check_fail: it returns false, records one Failure marker and
\* adds one to check_count.
C20_Underflow ==
    (IsCheck(last) /\ last.before.pstack = <<>> /\ WellFormed(last)) =>
        /\ last.ret = FALSE
        /\ Len(context.rstack) = Len(last.before.rstack) + 1
        /\ SubSeq(context.rstack, 1, Len(last.before.rstack)) = last.before.rstack
        /\ IsFailure(context.rstack[Len(context.rstack)])
        /\ context.check_count = last.before.check_count + 1
        /\ context.pstack = <<>>

\* each of the three checks has been called with an empty pstack
C20_Witness ==
    /\ context.pstack = <<>>
    /\ context.check_count = 3
    /\ context.rstack =
          <<Failure("not enough parameters on the stack for check_eq: 0"),
            Failure("not enough parameters on the stack for check_preimage: 0"),
            Failure("not enough parameters (0) on the stack for check_signature (/pubkey, /entry/)")>>

-----------------------------------------------------------------------------
(* Properties of the staged evaluator, continued *)

\* C11: when try_unlock has returned, current is the caller's current
\* store, proposed the caller's proposed store, and the stacks and
\* check_count are what the unlock expression left; every check run
\* afterwards reads its key from the caller's current store.
C11_SwapAfterUnlock ==
    /\ stage = "Unlocked" =>
          /\ context.current = builder[1].current
          /\ context.proposed = builder[1].proposed
    /\ (stage = "Unlocked" /\ attempts = 0) =>
          /\ context.pstack = start[1].final.pstack
          /\ context.rstack = start[1].final.rstack
          /\ context.check_count = start[1].final.check_count
    /\ (stage = "Unlocked" /\ IsCheck(last)) =>
          /\ last.before.current = builder[1].current
          /\ last.before.proposed = builder[1].proposed
          /\ last.ret =
                Apply(last, [last.before EXCEPT !.current = builder[1].current]).ret

\* a check accepted on a key whose value in the caller's current store is
\* not its value in the proposed store the unlock expression read
C11_Witness ==
    /\ stage = "Unlocked"
    /\ IsCheck(last)
    /\ last.ret = TRUE
    /\ last.key \in DOMAIN builder[1].proposed
    /\ builder[1].proposed[last.key] # builder[1].current[last.key]
    /\ Apply(last, [last.before EXCEPT !.current = builder[1].proposed]).ret = FALSE

\* C12: check_count of a Context never decreases, and the transition from
\* Initial to Unlocked keeps its value.
C12_CheckCountMonotone ==
    [][ /\ (context # NoContext /\ context' # NoContext) =>
              context'.check_count >= context.check_count
        /\ (clone # NoContext /\ clone' # NoContext) =>
              clone'.check_count >= clone.check_count
        /\ (stage = "Initial" /\ stage' = "Unlocked") =>
              context'.check_count = context.check_count ]_vars

\* a check accepted after two failed ones: the count is still 2
C12_Witness ==
    /\ stage = "Unlocked"
    /\ clone # NoContext
    /\ IsCheck(last)
    /\ last.ret = TRUE
    /\ last.before.check_count = 2
    /\ clone.check_count = 2

\* C14: two try_lock calls with the same lock expression on one evaluator
\* return the same value, whatever try_lock calls were made between them.
C14_Repeatable ==
    \A i, j \in DOMAIN returned :
        returned[i].lock = returned[j].lock => returned[i].result = returned[j].result

-----------------------------------------------------------------------------
(* The check counter and the lock attempt *)

\* C28: check_count of a Context is the number of check_* operations that
\* have been executed on it (context.rs:40-41, lib.rs:144-145)
C28_CheckCountIsChecks == stage = "Ctx" => context.check_count = checks

\* C21: when try_lock returns None (the clone's rstack has no top), the lock
\* expression called no check operator during that attempt
C21_NoneWithoutCheck ==
    (Finished("lock") /\ result = Ok(None)) => checks = start[1].checks

\* a try_lock whose expression called operators and that returned None
C21_Witness ==
    /\ Finished("lock")
    /\ result = Ok(None)
    /\ calls > start[1].calls
    /\ checks = start[1].checks

\* C29: during try_lock every operator the lock expression calls, push and
\* branch included, acts on the cloned Context: a lock expression that calls
\* push changes neither the caller's pstack nor the caller's rstack
C29_LockActsOnClone ==
    (start # None /\ start[1].mode = "lock" /\ calls > start[1].calls) =>
        /\ last.on = "clone"
        /\ context.pstack = start[1].context.pstack
        /\ context.rstack = start[1].context.rstack

\* C30: the value try_lock returns is a marker an operator pushed during
\* that lock attempt; a marker already on rstack when the attempt starts is
\* never returned as the result of a lock
C30_ResultPushedInAttempt ==
    (Finished("lock") /\ result.ok /\ result.v # None) =>
        /\ Added # <<>>
        /\ result.v = Some(Added[Len(Added)])

\* C30, amended: the value try_lock returns is the last marker pushed on
\* the clone during the attempt or, when the attempt pushed none, the marker
\* on top of the caller's rstack when the attempt started
C30_ResultIsTopOfClone ==
    (Finished("lock") /\ result.ok) =>
        result.v = IF Added # <<>>
                   THEN Some(Added[Len(Added)])
                   ELSE StkTop(start[1].context.rstack)

\* a try_lock that pushed no marker and returned the Failure left by a
\* push of the unlock expression
C30_Witness ==
    /\ Finished("lock")
    /\ result.ok
    /\ Added = <<>>
    /\ result.v # None
    /\ IsFailure(result.v[1])
    /\ result.v = StkTop(start[1].context.rstack)

\* C24: the transition from Initial to Unlocked keeps the Context: pstack,
\* rstack, check_count, domain and the loaded script slot of the Unlocked
\* evaluator are those of the Initial evaluator it was made from
C24_TransitionKeepsContext ==
    [][(stage = "Initial" /\ stage' = "Unlocked") =>
          /\ context'.pstack = context.pstack
          /\ context'.rstack = context.rstack
          /\ context'.check_count = context.check_count
          /\ context'.domain = context.domain
          /\ script' = script]_vars

\* an Unlocked evaluator just made from an Initial one with a domain of its
\* own, a value on pstack and a marker on rstack
C24_Witness ==
    /\ stage = "Unlocked"
    /\ attempts = 0
    /\ context.domain = "/forks/child"
    /\ context.pstack # <<>>
    /\ context.rstack # <<>>
    /\ script = Some(builder[1].unlock)

-----------------------------------------------------------------------------
(* The parameter stack and the Pairs store *)

\* the last call was a push of a key that current holds
PushHit == last.op = "push" /\ last.ret = TRUE

\* C25: the parameter stack is LIFO with non-destructive peeks: a new
\* Context has an empty pstack, and after a successful push(k) the length
\* is one more, top() and peek(0) are current[k], peek(i + 1) is what
\* peek(i) was before the push and peek(i) is None from the length on
C25_StackLifo ==
    /\ calls = 0 =>
          /\ StkLen(context.pstack) = 0
          /\ StkTop(context.pstack) = None
          /\ StkPeek(context.pstack, 0) = None
    /\ PushHit =>
          LET old == last.before.pstack
              stk == last.after.pstack
          IN  /\ StkLen(stk) = StkLen(old) + 1
              /\ StkTop(stk) = Some(last.after.current[last.key])
              /\ StkPeek(stk, 0) = StkTop(stk)
              /\ \A i \in 0 .. StkLen(old) : StkPeek(stk, i + 1) = StkPeek(old, i)
              /\ \A i \in StkLen(stk) .. StkLen(stk) + 1 : StkPeek(stk, i) = None

\* three successful pushes of three different values on an empty pstack
C25_Witness ==
    /\ PushHit
    /\ calls = 3
    /\ StkLen(context.pstack) = 3
    /\ context.rstack = <<>>
    /\ StkPeek(context.pstack, 0) # StkPeek(context.pstack, 1)
    /\ StkPeek(context.pstack, 1) # StkPeek(context.pstack, 2)
    /\ StkPeek(context.pstack, 0) # StkPeek(context.pstack, 2)
    /\ StkPeek(context.pstack, 3) = None

\* C26: put(k, v) on a Pairs store returns the value stored under k before
\* (None when k was absent); afterwards get(k) is v, get of every other key
\* is what it was, and the store holds k once
C26_PutDisplaces ==
    last.op = "put" =>
        /\ last.ret = get(last.before, last.key)
        /\ get(last.after, last.key) = Some(last.value)
        /\ \A k \in Keys \ {last.key} : get(last.after, k) = get(last.before, k)
        /\ DOMAIN last.after = DOMAIN last.before \cup {last.key}
        /\ last.after = context.current

\* a put that displaced another value while the store held other keys
C26_Witness ==
    /\ last.op = "put"
    /\ last.ret # None
    /\ last.ret # Some(last.value)
    /\ get(context.current, last.key) = Some(last.value)
    /\ \E k \in Keys \ {last.key} : get(last.before, k) # None

-----------------------------------------------------------------------------
(* Errors of the expression evaluator, and the lock around the Context *)

\* C22: when the expression evaluator raises (the script does not compile
\* or calls a function that is not registered), run returns an error, and
\* the error pushes no marker on rstack and leaves check_count as it was
C22_ErrorPushesNothing ==
    [][(Running /\ Raises /\ pc' = 0) =>
          /\ result' = Err("script error")
          /\ context'.rstack = context.rstack
          /\ context'.check_count = context.check_count
          /\ context'.pstack = context.pstack]_vars

\* a run that raised after a check of the same script had failed
C22_Witness ==
    /\ Finished("run")
    /\ result = Err("script error")
    /\ checks > start[1].checks
    /\ start[1].final = context
    /\ context.check_count = start[1].context.check_count + 1
    /\ Len(context.rstack) = Len(start[1].context.rstack) + 1

\* C23: run on an evaluator on which no script was ever loaded returns the
\* error "no script loaded" and calls no operator: pstack, rstack,
\* check_count and both stores are unchanged
C23_NoScriptLoaded ==
    [][(stage = "Single" /\ script = None /\ attempts' = attempts + 1) =>
          /\ result' = Err("no script loaded")
          /\ context' = context
          /\ calls' = calls
          /\ checks' = checks
          /\ pc' = 0
          /\ script' = None]_vars

\* run has returned "no script loaded" on an evaluator that holds pairs
C23_Witness ==
    /\ stage = "Single"
    /\ script = None
    /\ attempts > 0
    /\ puts > 0
    /\ result = Err("no script loaded")
    /\ calls = 0
    /\ context.rstack = <<>> /\ context.pstack = <<>> /\ context.check_count = 0

\* C27: the Context lock is never requested while it is held: only an
\* operator closure holds it, for the one Context method it calls, and run
\* holds no lock while the script is evaluated, so no request blocks
C27_NoLockWhileHeld ==
    /\ mutex \in {"free", "closure"}
    /\ mutex = "closure" => (stage = "Single" /\ AtCall)
    /\ ~Running => mutex = "free"

\* during a run a second closure holds the lock, after the first released it
C27_Witness ==
    /\ stage = "Single"
    /\ mutex = "closure"
    /\ calls > start[1].calls
    /\ puts > 0

-----------------------------------------------------------------------------
(* The value of an expression and the markers on the return stack *)

\* the script is made of check operator calls joined by "||" or by "&&"
CheckOnly(s) ==
    /\ s.kind \in {"or", "and"}
    /\ s.calls # <<>>
    /\ \A i \in DOMAIN s.calls : s.calls[i].op \in CheckOps

IsSuccess(v) == v.tag = "Success"

\* the top of the stack is a Success marker
SuccessOnTop(s) == StkTop(s) # None /\ IsSuccess(StkTop(s)[1])

\* C31: an expression made only of check operator calls joined by
\* short-circuit || and && evaluates to true if and only if the top of
\* rstack afterwards is a Success marker
C31_ValueIsTop ==
    ( /\ start # None /\ start[1].mode \in {"run", "lock"}
      /\ ~Running /\ start[1].final # NoContext
      /\ CheckOnly(start[1].script)
      /\ result.ok ) =>
        (value = Some(TRUE) <=> SuccessOnTop(start[1].final.rstack))

\* a conjunction of two checks that both succeeded, on an rstack that held
\* no Success before
C31_Witness ==
    /\ Finished("run")
    /\ start[1].script = LockAnd
    /\ result = Ok(TRUE)
    /\ calls = start[1].calls + 2
    /\ ~SuccessOnTop(start[1].context.rstack)
    /\ SuccessOnTop(start[1].final.rstack)

-----------------------------------------------------------------------------
(* The order of the preconditions of check_signature *)

\* the message of the arity test of check_signature
ArityErr(self, key, msg) ==
    "not enough parameters (" \o ToString(StkLen(self.pstack))
        \o ") on the stack for check_signature (" \o key \o ", " \o msg \o ")"

\* the preconditions of check_signature(key, msg) on a Context, in the order
\* of the source, each with whether it fails by itself and its message
SigPreconditions(self, key, msg) ==
    LET k == get(self.current, key)
        m == get(self.proposed, msg)
        t == StkTop(self.pstack)
        keyOk == k # None /\ k[1].tag = "Bin" /\ MultikeyOk(k[1].data)
        msgOk == m # None /\ IsData(m[1])
        sigOk == t # None /\ t[1].tag = "Bin" /\ MultisigOk(t[1].data)
    IN  << [fails |-> k = None, err |-> "no multikey associated with " \o key],
           [fails |-> k # None /\ k[1].tag # "Bin",
            err |-> "unexpected value type associated with " \o key],
           [fails |-> k # None /\ k[1].tag = "Bin" /\ ~MultikeyOk(k[1].data),
            err |-> MultikeyErr],
           [fails |-> m = None, err |-> "no message associated with " \o msg],
           [fails |-> m # None /\ ~IsData(m[1]),
            err |-> "unexpected value type associated with " \o msg],
           [fails |-> t = None, err |-> ArityErr(self, key, msg)],
           [fails |-> t # None /\ t[1].tag # "Bin", err |-> "no multisig on stack"],
           [fails |-> t # None /\ t[1].tag = "Bin" /\ ~MultisigOk(t[1].data),
            err |-> MultisigErr],
           [fails |-> keyOk /\ ~VerifyViewOk(Multikey(k[1].data)), err |-> VerifyViewErr],
           [fails |-> /\ keyOk /\ msgOk /\ sigOk
                      /\ VerifyViewOk(Multikey(k[1].data))
                      /\ ~Verify(Multikey(k[1].data), Multisig(t[1].data), Bytes(m[1])),
            err |-> VerifyErr] >>

\* the preconditions that fail
Failing(pre) == {i \in DOMAIN pre : pre[i].fails}

\* C32: check_signature tests its preconditions in a fixed order (key in
\* current, message in proposed, pstack arity, signature decode, verify) and
\* stops at the first that fails: the one Failure pushed carries the message
\* of the earliest failing precondition and check_count grows by one
C32_EarliestFailure ==
    (last.op = "check_signature" /\ last.on = "context") =>
        LET pre == SigPreconditions(last.before, last.key, last.msg) IN
        /\ last.ret = (Failing(pre) = {})
        /\ Failing(pre) # {} =>
              /\ last.after.rstack =
                    StkPush(last.before.rstack, Failure(pre[Least(Failing(pre))].err))
              /\ last.after.check_count = last.before.check_count + 1
              /\ last.after.pstack = last.before.pstack

\* check_signature with a missing key, a missing message and an empty pstack
C32_Witness ==
    /\ last.op = "check_signature"
    /\ Cardinality(Failing(SigPreconditions(last.before, last.key, last.msg))) >= 3
    /\ last.before.pstack = <<>>
    /\ get(last.before.current, last.key) = None
    /\ StkTop(last.after.rstack) = Some(Failure("no multikey associated with " \o last.key))
    /\ last.after.check_count = last.before.check_count + 1

-----------------------------------------------------------------------------
(* The new Context, and what its stacks and counter account for *)

\* the Context as it was made, given that no operator writes the stores or
\* the domain
Origin(self) == [self EXCEPT !.pstack = <<>>, !.rstack = <<>>, !.check_count = 0]

\* C33: a newly created Context has check_count 0, an empty pstack, an empty
\* rstack and domain "/", so with no domain set branch(k) returns "/" ++ k
C33_NewContext ==
    /\ (calls = 0 /\ context \in NewContexts) =>
          /\ context.check_count = 0
          /\ context.pstack = <<>>
          /\ context.rstack = <<>>
          /\ context.domain = "/"
    /\ (last.op = "branch" /\ Origin(last.before) \in NewContexts) =>
          last.ret = "/" \o last.key

\* branch("x") on a Context made by new, after other calls, returned "/x"
C33_Witness ==
    /\ last.op = "branch"
    /\ last.key = "x"
    /\ Origin(last.before) \in NewContexts
    /\ last.before.current # last.before.proposed
    /\ last.before.pstack # <<>>
    /\ last.ret = "/x"

\* the positions of the Failure markers on a return stack
Failures(s) == {i \in DOMAIN s : IsFailure(s[i])}

\* the positions of the Success markers on a return stack
Successes(s) == {i \in DOMAIN s : IsSuccess(s[i])}

\* the positions of the markers that check operators recorded
ByCheck == {i \in DOMAIN tally.origin : tally.origin[i] = "check"}

\* the evaluator has one Context, made new, that every call acts on
OneContext == stage \in {"Ctx", "Single"}

IsPrefix(s, t) == Len(s) <= Len(t) /\ SubSeq(t, 1, Len(s)) = s

\* C36: in every state reached from a new Context, the length of pstack is
\* the number of push calls that hit minus the number of Success markers on
\* rstack, the length of rstack is the number of check calls made plus the
\* number of push calls that missed, and no operator removes or rewrites a
\* marker already on rstack
C36_StackAccounting ==
    OneContext =>
        /\ StkLen(context.pstack) = tally.hits - Cardinality(Successes(context.rstack))
        /\ StkLen(context.rstack) = checks + tally.misses
        /\ (IsOperator(last) /\ last.on = "context") =>
              IsPrefix(last.before.rstack, last.after.rstack)

\* hits, a miss, a failed check and a successful one: pstack is shorter than
\* the number of hits and rstack holds three markers
C36_Witness ==
    /\ OneContext
    /\ tally.hits >= 1
    /\ tally.misses >= 1
    /\ checks >= 2
    /\ Successes(context.rstack) # {}
    /\ StkLen(context.pstack) < tally.hits
    /\ StkLen(context.rstack) = 3

-----------------------------------------------------------------------------
(* Comrade: the rotation of the stores and the state kept between runs *)

\* the keys a list of pairs names
KeysOf(kvps) == {kvps[i].key : i \in DOMAIN kvps}

\* the value the last pair of the list with that key gives it
LastValue(kvps, k) ==
    kvps[CHOOSE i \in DOMAIN kvps :
            kvps[i].key = k /\ \A j \in DOMAIN kvps : kvps[j].key = k => j <= i].value

\* C37: Comrade::put(kvps) rotates the stores: afterwards proposed is the
\* store that was current before the call, current holds exactly the pairs
\* of kvps, and pstack, rstack and check_count are unchanged
C37_PutRotates ==
    [][(stage = "Single" /\ puts' = puts + 1) =>
          LET kvps == last'.kvps IN
          /\ context'.proposed = context.current
          /\ DOMAIN context'.current = KeysOf(kvps)
          /\ \A k \in KeysOf(kvps) : get(context'.current, k) = Some(LastValue(kvps, k))
          /\ \A k \in Keys \ KeysOf(kvps) : get(context'.current, k) = None
          /\ context'.pstack = context.pstack
          /\ context'.rstack = context.rstack
          /\ context'.check_count = context.check_count]_vars

\* a second put, after a run: the pairs of the first put are in proposed,
\* one of its keys is no longer in current, and the stacks hold what the run
\* left
C37_Witness ==
    /\ stage = "Single"
    /\ puts = 2
    /\ last.op = "put"
    /\ context.proposed # EmptyPairs
    /\ \E k \in DOMAIN context.proposed : get(context.current, k) = None
    /\ context.pstack # <<>>
    /\ context.rstack # <<>>

\* C38: Comrade::run does not snapshot or reset state: a run begins on the
\* pstack, rstack and check_count the calls before it left, so rstack holds
\* the markers of the earlier runs followed by those of the last one, and a
\* Success(n) pushed in a later run counts the failed checks of the earlier
\* runs as well
C38_RunsShareState ==
    [][/\ (stage = "Single" /\ script # None /\ attempts' = attempts + 1) =>
             /\ context' = context
             /\ start'[1].context = context
       /\ (stage = "Single" /\ start' # None) =>
             LET rs == context'.rstack IN
             /\ IsPrefix(start'[1].context.rstack, rs)
             /\ context'.check_count >= start'[1].context.check_count
             /\ \A i \in Successes(rs) :
                   rs[i].count =
                      Cardinality({j \in Failures(rs) \cap ByCheck' : j < i})]_vars

\* the second run pushed Success(1) on top of the Failure of a check that
\* failed in the first run
C38_Witness ==
    /\ Finished("run")
    /\ attempts = 2
    /\ result = Ok(TRUE)
    /\ start[1].context.check_count = 1
    /\ Failures(start[1].context.rstack) # {}
    /\ start[1].context.pstack # <<>>
    /\ Added = <<Success(1)>>
    /\ start[1].final.rstack = Append(start[1].context.rstack, Success(1))

====
